---- MODULE Spec2Model ----
(***************************************************************************)
(* Model of the rent tracker (src/app.py): a SQLite table of transactions  *)
(* with a stored running_total column, the functions that read and write   *)
(* it, and the Streamlit page handlers that call them.                     *)
(*                                                                         *)
(* Dates are the strings the program stores.  A CSV date "DD-MM-YYYY" is   *)
(* the tuple <<dd, mm, yyyy>>, a stored ISO date "YYYY-MM-DD" is the tuple *)
(* <<yyyy, mm, dd>>; SQLite compares the stored TEXT left to right, which  *)
(* on the fixed-width ISO form is the lexicographic order of the tuple.    *)
(* Amounts are REAL in the table; the model uses small integers, on which  *)
(* the additions of the program are exact.                                 *)
(***************************************************************************)
EXTENDS Integers, Sequences, FiniteSets

\* ------------------------------------------------------------------ bounds
\* ids handed out in a run of the database functions, and in a run of the
\* pages; rows in a CSV file
MaxSeq == 3
MaxSeqUI == 2
MaxCsvRows == 2

\* the (amount, remark) pairs entered: charges are positive, payments negative
Entries == {<<2, "Rent">>, <<0 - 1, "Rent">>, <<0 - 1, "Payment">>}
Amounts == {e[1] : e \in Entries}
Remarks == {e[2] : e \in Entries}
IsoDates == {<<2024, 1, 2>>, <<2024, 2, 1>>}
\* CSV cells: the dates 02-01-2024, 01-02-2024 and 01-13-2024 (no such
\* month), the amounts 2, -1 and abc
CsvEntries == {<<"2", "Rent">>, <<"-1", "Payment">>}
\* the rows a file can hold: every valid cell combination, one row whose
\* Date does not parse and one whose Amount does not
CsvRow ==
    {[Date |-> d, Amount |-> e[1], Remark |-> e[2]] :
        d \in {<<2, 1, 2024>>, <<1, 2, 2024>>}, e \in CsvEntries}
    \cup {[Date |-> <<1, 13, 2024>>, Amount |-> "2", Remark |-> "Rent"],
          [Date |-> <<2, 1, 2024>>, Amount |-> "abc", Remark |-> "Rent"]}

VARIABLES db, seq, logged_in, username, page, op

vars == <<db, seq, logged_in, username, page, op>>

\* ----------------------------------------------------------------- helpers
RECURSIVE SumAmount(_, _)
SumAmount(s, k) == IF k = 0 THEN 0 ELSE SumAmount(s, k - 1) + s[k].amount

Range(s) == {s[i] : i \in 1 .. Len(s)}

IdsOf(s) == {s[i].id : i \in 1 .. Len(s)}

RowOf(s, i) == CHOOSE r \in Range(s) : r.id = i

\* comparison of two "YYYY-MM-DD" strings
DateLess(a, b) ==
    \/ a[1] < b[1]
    \/ a[1] = b[1] /\ a[2] < b[2]
    \/ a[1] = b[1] /\ a[2] = b[2] /\ a[3] < b[3]

DateLeq(a, b) == a = b \/ DateLess(a, b)

\* r comes before s in "ORDER BY date": ascending date, rows of equal date
\* in rowid order (the order of the table scan)
Before(r, s) == DateLess(r.date, s.date) \/ (r.date = s.date /\ r.id < s.id)

\* r comes before s in "ORDER BY date DESC": descending date, rows of equal
\* date still in rowid order
BeforeDesc(r, s) == DateLess(s.date, r.date) \/ (r.date = s.date /\ r.id < s.id)

OrderByDate(rows) ==
    [k \in 1 .. Cardinality(rows) |->
        CHOOSE r \in rows : Cardinality({s \in rows : Before(s, r)}) = k - 1]

OrderByDateDesc(rows) ==
    [k \in 1 .. Cardinality(rows) |->
        CHOOSE r \in rows : Cardinality({s \in rows : BeforeDesc(s, r)}) = k - 1]

\* ------------------------------------------------------------ CSV parsing
DaysIn(m) == IF m = 2 THEN 29 ELSE IF m \in {4, 6, 9, 11} THEN 30 ELSE 31

\* pd.to_datetime(..., format='%d-%m-%Y') accepts the cell
DateParses(d) == d[2] \in 1 .. 12 /\ d[1] \in 1 .. DaysIn(d[2])

\* .dt.strftime('%Y-%m-%d')
ToIso(d) == <<d[3], d[2], d[1]>>

\* pd.to_numeric accepts the cell
AmountParses(a) == a \in {"2", "-1"}

to_numeric(a) == IF a = "2" THEN 2 ELSE 0 - 1

CsvFiles(n) == [1 .. n -> CsvRow]

ParseOk(file) ==
    \A i \in 1 .. Len(file) : DateParses(file[i].Date) /\ AmountParses(file[i].Amount)

Converted(row) ==
    [date |-> ToIso(row.Date), amount |-> to_numeric(row.Amount), remark |-> row.Remark]

Permutations(n) == {p \in [1 .. n -> 1 .. n] : \A i, j \in 1 .. n : p[i] = p[j] => i = j}

\* the data frames parse_csv_data can return for a file that parses: the
\* converted rows sorted by the ISO date, rows of equal date in either order
parse_csv_data(file) ==
    {[k \in 1 .. Len(file) |-> Converted(file[p[k]])] : p \in
        {q \in Permutations(Len(file)) :
            \A i, j \in 1 .. Len(file) :
                i < j => DateLeq(ToIso(file[q[i]].Date), ToIso(file[q[j]].Date))}}

\* ------------------------------------------------------- ledger functions
\* the rows import_csv_to_db inserts for a data frame, after DELETE
ImportedRows(df, s) ==
    [k \in 1 .. Len(df) |->
        [id |-> s + k, date |-> df[k].date, amount |-> df[k].amount,
         remark |-> df[k].remark, running_total |-> SumAmount(df, k)]]

\* variant: the DELETE is committed before the file is parsed
import_csv_to_db_commit_delete(store, s, file, df) ==
    IF ParseOk(file) THEN ImportedRows(df, s) ELSE <<>>

\* variant: the rows are added to the stored ones instead of replacing them
import_csv_to_db_merge(store, s, file, df) ==
    IF ParseOk(file) THEN store \o ImportedRows(df, s) ELSE store

\* the committed table after import_csv_to_db: the new rows when the file
\* parses; when parse_csv_data raises, the DELETE is never committed and
\* is rolled back with the abandoned connection
import_csv_to_db(store, s, file, df) ==
    IF ParseOk(file) THEN ImportedRows(df, s) ELSE store

last_total(store) ==
    IF store = <<>> THEN 0 ELSE OrderByDateDesc(Range(store))[1].running_total

add_transaction(store, s, date, amount, remark) ==
    Append(store, [id |-> s + 1, date |-> date, amount |-> amount, remark |-> remark,
                   running_total |-> last_total(store) + amount])

\* variant: an id that matches no row is inserted (an upsert)
update_transaction_upsert(store, transaction_id, new_date, new_amount, new_remark) ==
    IF transaction_id \in IdsOf(store)
    THEN [k \in 1 .. Len(store) |->
            IF store[k].id = transaction_id
            THEN [store[k] EXCEPT !.date = new_date, !.amount = new_amount,
                                  !.remark = new_remark]
            ELSE store[k]]
    ELSE Append(store, [id |-> transaction_id, date |-> new_date, amount |-> new_amount,
                        remark |-> new_remark, running_total |-> new_amount])

\* variant: the update is followed by a recomputation of every running_total
update_transaction_recompute(store, transaction_id, new_date, new_amount, new_remark) ==
    LET updated == [k \in 1 .. Len(store) |->
                        IF store[k].id = transaction_id
                        THEN [store[k] EXCEPT !.date = new_date, !.amount = new_amount,
                                              !.remark = new_remark]
                        ELSE store[k]]
        ord == OrderByDate(Range(updated))
    IN [k \in 1 .. Len(updated) |->
            [updated[k] EXCEPT !.running_total =
                SumAmount(ord, CHOOSE j \in 1 .. Len(ord) : ord[j].id = updated[k].id)]]

update_transaction(store, transaction_id, new_date, new_amount, new_remark) ==
    [k \in 1 .. Len(store) |->
        IF store[k].id = transaction_id
        THEN [store[k] EXCEPT !.date = new_date, !.amount = new_amount,
                              !.remark = new_remark]
        ELSE store[k]]

delete_transaction(store, transaction_id) ==
    SelectSeq(store, LAMBDA r : r.id # transaction_id)

\* the DELETE loop of the "Delete Selected Records" button
delete_selected(store, selected_ids) ==
    SelectSeq(store, LAMBDA r : r.id \notin selected_ids)

get_transactions(store) == OrderByDateDesc(Range(store))

generate_report(store, start_date, end_date) ==
    OrderByDate({r \in Range(store) :
                    DateLeq(start_date, r.date) /\ DateLeq(r.date, end_date)})

\* the current_balance entry of the analysis: df['running_total'].iloc[0]
analyze_transactions(df) == IF df # <<>> THEN df[1].running_total ELSE 0

\* ------------------------------------------------------------------ state
\* db: the committed rows of the table, in rowid order; seq: the last id
\* AUTOINCREMENT handed out; logged_in, username: st.session_state; page:
\* the page the last script run dispatched to; op: the last call: its name,
\* whether it succeeded, whether its target existed (for an import: whether
\* the table held rows), and the balance analyze_transactions returned
NoOp == [name |-> "init", ok |-> TRUE, pre |-> FALSE, balance |-> 0]

Init ==
    /\ db = <<>>
    /\ seq = 0
    /\ logged_in = FALSE
    /\ username = ""
    /\ page = "View Transactions"
    /\ op = NoOp

ui == <<logged_in, username, page>>

Min(a, b) == IF a < b THEN a ELSE b

\* ids a caller can name: every id handed out so far and one never used
Ids == 1 .. (seq + 1)

\* --------------------------------------------------- the database functions
ImportCsv(file) ==
    /\ IF ParseOk(file)
       THEN \E df \in parse_csv_data(file) :
                /\ db' = import_csv_to_db(db, seq, file, df)
                /\ seq' = seq + Len(file)
       ELSE /\ db' = import_csv_to_db(db, seq, file, <<>>)
            /\ seq' = seq
    /\ op' = [NoOp EXCEPT !.name = "import_csv_to_db", !.ok = ParseOk(file),
                          !.pre = (db # <<>>)]

Add(date, amount, remark) ==
    /\ db' = add_transaction(db, seq, date, amount, remark)
    /\ seq' = seq + 1
    /\ op' = [NoOp EXCEPT !.name = "add_transaction"]

Update(i, date, amount, remark) ==
    /\ db' = update_transaction(db, i, date, amount, remark)
    /\ op' = [NoOp EXCEPT !.name = "update_transaction", !.pre = (i \in IdsOf(db))]
    /\ UNCHANGED seq

Delete(i) ==
    /\ db' = delete_transaction(db, i)
    /\ op' = [NoOp EXCEPT !.name = "delete_transaction", !.pre = (i \in IdsOf(db))]
    /\ UNCHANGED seq

DeleteSelected(selected_ids) ==
    /\ db' = delete_selected(db, selected_ids)
    /\ op' = [NoOp EXCEPT !.name = "delete_selected", !.pre = TRUE]
    /\ UNCHANGED seq

Analyze(name, df) ==
    /\ op' = [NoOp EXCEPT !.name = name, !.pre = (df # <<>>),
                          !.balance = analyze_transactions(df)]
    /\ UNCHANGED <<db, seq>>

ImportCsvToDb ==
    /\ \E n \in 0 .. Min(MaxCsvRows, MaxSeq - seq) : \E file \in CsvFiles(n) :
            ImportCsv(file)
    /\ UNCHANGED ui

AddTransaction ==
    /\ seq < MaxSeq
    /\ \E date \in IsoDates, e \in Entries : Add(date, e[1], e[2])
    /\ UNCHANGED ui

UpdateTransaction ==
    /\ \E i \in Ids, date \in IsoDates, e \in Entries : Update(i, date, e[1], e[2])
    /\ UNCHANGED ui

DeleteTransaction ==
    /\ \E i \in Ids : Delete(i)
    /\ UNCHANGED ui

DeleteSelectedRecords ==
    /\ \E selected_ids \in SUBSET IdsOf(db) : selected_ids # {} /\ DeleteSelected(selected_ids)
    /\ UNCHANGED ui

GetTransactions ==
    /\ Analyze("get_transactions", get_transactions(db))
    /\ UNCHANGED ui

Report(start_date, end_date) ==
    Analyze("generate_report", generate_report(db, start_date, end_date))

GenerateReport ==
    /\ \E start_date \in IsoDates, end_date \in IsoDates : Report(start_date, end_date)
    /\ UNCHANGED ui

Next ==
    \/ ImportCsvToDb
    \/ AddTransaction
    \/ UpdateTransaction
    \/ DeleteTransaction
    \/ DeleteSelectedRecords

Spec == Init /\ [][Next]_vars

NextReport ==
    \/ Next
    \/ GetTransactions
    \/ GenerateReport

SpecReport == Init /\ [][NextReport]_vars

\* ------------------------------------------------------------ the pages
Pages == {"Add Transaction", "View Transactions", "Generate Report", "Import CSV"}
Usernames == {"admin", "guest"}
Passwords == {"admin123", "admin"}

\* hashlib.sha256(password.encode()).hexdigest()
sha256(password) ==
    IF password = "admin123"
    THEN "240be518fabd2724ddb6f04eeb1da5967448d7e831c08c8fa822809f74c720a9"
    ELSE "8c6976e5b5410415bde908bd4dee15dfb167a9c873fc4bb8a81f6f2ab448a918"

USERS == [u \in {"admin"} |-> sha256("admin123")]

authenticate_user(user, password) ==
    user \in DOMAIN USERS /\ USERS[user] = sha256(password)

\* the page a script run dispatches to
page_for(logged, selection) == IF logged THEN selection ELSE "View Transactions"

\* variant: the editor and the delete button are shown to everyone
edit_allowed_anyone == TRUE

\* the View Transactions page shows the editor and the delete button
edit_allowed == logged_in

Login ==
    /\ ~logged_in
    /\ \E user \in Usernames, password \in Passwords :
        IF authenticate_user(user, password)
        THEN /\ logged_in' = TRUE
             /\ username' = user
             /\ page' = page_for(TRUE, "Add Transaction")
             /\ op' = [NoOp EXCEPT !.name = "login"]
        ELSE /\ UNCHANGED <<logged_in, username>>
             /\ page' = page_for(FALSE, page)
             /\ op' = [NoOp EXCEPT !.name = "login", !.ok = FALSE]
    /\ UNCHANGED <<db, seq>>

Logout ==
    /\ logged_in
    /\ logged_in' = FALSE
    /\ page' = page_for(FALSE, page)
    /\ op' = [NoOp EXCEPT !.name = "logout"]
    /\ UNCHANGED <<username, db, seq>>

SelectPage ==
    /\ \E selection \in Pages :
        /\ page' = page_for(logged_in, selection)
        /\ page' # page
    /\ op' = [NoOp EXCEPT !.name = "select_page"]
    /\ UNCHANGED <<logged_in, username, db, seq>>

ImportData ==
    /\ page = "Import CSV" /\ logged_in
    /\ \E n \in 0 .. Min(MaxCsvRows, MaxSeqUI - seq) : \E file \in CsvFiles(n) :
            ImportCsv(file)
    /\ UNCHANGED ui

AddTransactionForm ==
    /\ page = "Add Transaction" /\ logged_in
    /\ seq < MaxSeqUI
    /\ \E date \in IsoDates, e \in Entries : Add(date, e[1], e[2])
    /\ UNCHANGED ui

\* the values a cell of the data editor can be changed to
CellValues(column) ==
    IF column = "id" THEN Ids
    ELSE IF column = "date" THEN IsoDates
    ELSE IF column = "amount" THEN Amounts
    ELSE IF column = "remark" THEN Remarks
    ELSE {0, 1}

\* the loop over edited_df: the first row that differs from the row of df
\* with its id is written; a row whose id is in no row of df raises
RECURSIVE edited_row(_, _, _)
edited_row(df, edited_df, k) ==
    IF k > Len(edited_df) THEN [kind |-> "none", row |-> 0]
    ELSE IF edited_df[k].id \notin IdsOf(df) THEN [kind |-> "error", row |-> k]
    ELSE LET original_row == df[CHOOSE j \in 1 .. Len(df) : df[j].id = edited_df[k].id]
         IN IF \/ edited_df[k].amount # original_row.amount
               \/ edited_df[k].remark # original_row.remark
               \/ edited_df[k].date # original_row.date
            THEN [kind |-> "update", row |-> k]
            ELSE edited_row(df, edited_df, k + 1)

EditTransactions ==
    /\ page = "View Transactions" /\ db # <<>> /\ edit_allowed
    /\ \E df \in {get_transactions(db)} :
        \E k \in 1 .. Len(df), column \in {"id", "date", "amount", "remark", "running_total"} :
            \E value \in CellValues(column) \ {df[k][column]} :
                \E edited_df \in {[df EXCEPT ![k] = [df[k] EXCEPT ![column] = value]]} :
                    \E found \in {edited_row(df, edited_df, 1)} :
                        IF found.kind = "update"
                        THEN Update(edited_df[found.row].id, edited_df[found.row].date,
                                    edited_df[found.row].amount, edited_df[found.row].remark)
                        ELSE /\ op' = [NoOp EXCEPT !.name = "edit",
                                                   !.ok = (found.kind = "none")]
                             /\ UNCHANGED <<db, seq>>
    /\ UNCHANGED ui

DeleteSelectedButton ==
    /\ page = "View Transactions" /\ db # <<>> /\ edit_allowed
    /\ \E selected_ids \in SUBSET IdsOf(db) :
        IF selected_ids # {}
        THEN DeleteSelected(selected_ids)
        ELSE /\ op' = [NoOp EXCEPT !.name = "delete_selected"]
             /\ UNCHANGED <<db, seq>>
    /\ UNCHANGED ui

GenerateReportButton ==
    /\ page = "Generate Report" /\ logged_in
    /\ \E start_date \in IsoDates, end_date \in IsoDates :
        LET report_df == generate_report(db, start_date, end_date)
        IN IF report_df # <<>>
           THEN Analyze("generate_report", report_df)
           ELSE /\ op' = [NoOp EXCEPT !.name = "generate_report"]
                /\ UNCHANGED <<db, seq>>
    /\ UNCHANGED ui

NextUI ==
    \/ Login
    \/ Logout
    \/ SelectPage
    \/ ImportData
    \/ AddTransactionForm
    \/ EditTransactions
    \/ DeleteSelectedButton
    \/ GenerateReportButton

SpecUI == Init /\ [][NextUI]_vars

\* ------------------------------------------------------------- properties
\* the rows of a store in chronological order: by date, equal dates in
\* store (id) order
Chronological(store) == OrderByDate(Range(store))

\* the sum of amount over r and the rows chronologically before it
PrefixSum(store, r) ==
    LET ord == Chronological(store)
        k == CHOOSE j \in 1 .. Len(ord) : ord[j].id = r.id
    IN SumAmount(ord, k)

RunningTotalInvariant(store) ==
    \A r \in Range(store) : r.running_total = PrefixSum(store, r)

\* C1: after any sequence of import_csv_to_db, add_transaction,
\* update_transaction and delete operations from the empty store, every
\* stored running_total is the sum of the amounts up to and including its
\* row in date order (ties in id order)
C1_RunningTotalsAlwaysPrefixSums == RunningTotalInvariant(db)

\* the chronologically last row of a non-empty store
ChronLast(store) == Chronological(store)[Len(store)]

\* the id, date, amount and remark of a row
Fields(r) == [id |-> r.id, date |-> r.date, amount |-> r.amount, remark |-> r.remark]

\* C2: an update_transaction that keeps date and remark and changes the
\* amount shifts the running_total of the edited row and of every row
\* chronologically after it by the difference, and leaves earlier ones alone
C2_EditShiftsLaterTotals ==
    [][\A i \in IdsOf(db), e \in Entries :
        LET old == RowOf(db, i)
        IN (/\ op'.name = "update_transaction"
            /\ e[2] = old.remark
            /\ e[1] # old.amount
            /\ Update(i, old.date, e[1], e[2]))
           => \A r \in Range(db) :
                /\ r.id \in IdsOf(db')
                /\ RowOf(db', r.id).running_total =
                      IF r.id = i \/ Before(old, r)
                      THEN r.running_total + (e[1] - old.amount)
                      ELSE r.running_total]_vars

\* C3: deleting an existing id from a store in which the invariant holds
\* removes exactly that row, keeps the fields of all others, and leaves a
\* store in which the invariant holds again
C3_DeleteRestoresInvariant ==
    [][\A i \in IdsOf(db) :
        (/\ op'.name = "delete_transaction"
         /\ RunningTotalInvariant(db)
         /\ Delete(i))
        => /\ IdsOf(db') = IdsOf(db) \ {i}
           /\ Len(db') = Len(db) - 1
           /\ \A r \in Range(db) : r.id # i => Fields(RowOf(db', r.id)) = Fields(r)
           /\ RunningTotalInvariant(db')]_vars

\* C9: when the invariant holds and add_transaction gets a date not before
\* any stored date, the new row's running_total is that of the
\* chronologically last stored row plus the amount (the amount on an empty
\* store), and the invariant holds afterwards
C9_AppendFastPath ==
    [][\A date \in IsoDates, e \in Entries :
        (/\ op'.name = "add_transaction"
         /\ RunningTotalInvariant(db)
         /\ \A r \in Range(db) : DateLeq(r.date, date)
         /\ Add(date, e[1], e[2]))
        => /\ db'[Len(db')].running_total =
                (IF db = <<>> THEN 0 ELSE ChronLast(db).running_total) + e[1]
           /\ RunningTotalInvariant(db')]_vars

\* C4: import_csv_to_db of a file of N valid rows replaces the store: N
\* rows, none with the id of a row stored before, one per CSV row with its
\* date (in ISO form), amount and remark, inserted in ascending date order,
\* the k-th with the sum of the first k amounts as running_total
C4_ImportReplacesStore ==
    [][(op'.name = "import_csv_to_db" /\ op'.ok)
        => \A n \in {seq' - seq} : \A file \in CsvFiles(n) :
            ImportCsv(file)
            => /\ Len(db') = n
               /\ IdsOf(db') \cap IdsOf(db) = {}
               /\ \E p \in Permutations(n) : \A k \in 1 .. n :
                    /\ db'[k].date = <<file[p[k]].Date[3], file[p[k]].Date[2],
                                       file[p[k]].Date[1]>>
                    /\ db'[k].amount = to_numeric(file[p[k]].Amount)
                    /\ db'[k].remark = file[p[k]].Remark
               /\ \A k \in 1 .. n - 1 :
                    /\ db'[k].id < db'[k + 1].id
                    /\ DateLeq(db'[k].date, db'[k + 1].date)
               /\ \A k \in 1 .. n : db'[k].running_total = SumAmount(db', k)]_vars

\* a two-row file was imported over a store that held rows
C4_Witness ==
    /\ op.name = "import_csv_to_db" /\ op.ok /\ op.pre
    /\ Len(db) = 2
    /\ db[1].date # db[2].date

\* C5: an import of a file with an unparseable Amount or Date reports an
\* error and leaves the committed rows as they were
C5_FailedImportLeavesStore ==
    [][(op'.name = "import_csv_to_db" /\ ~op'.ok) => (db' = db /\ seq' = seq)]_vars

\* a failed import over a store that holds rows
C5_Witness == op.name = "import_csv_to_db" /\ ~op.ok /\ op.pre /\ db # <<>>

\* C8: update_transaction and delete_transaction with an id that is not in
\* the store change nothing
C8_MissingIdIsNoOp ==
    [][(op'.name \in {"update_transaction", "delete_transaction"} /\ ~op'.pre)
        => (db' = db /\ seq' = seq)]_vars

\* an update of an absent id on a store that holds rows
C8_Witness == op.name = "update_transaction" /\ ~op.pre /\ db # <<>>

\* C10: no step rewrites the running_total of a row that stays in the store,
\* and rows leave the store only by a delete or an import
C10_RunningTotalNeverRewritten ==
    [][/\ \A r \in Range(db) :
            r.id \in IdsOf(db') => RowOf(db', r.id).running_total = r.running_total
       /\ op'.name \in {"add_transaction", "update_transaction"}
            => IdsOf(db) \subseteq IdsOf(db')]_vars

\* an update of a stored row whose amount no longer matches the stored totals
C10_Witness ==
    /\ op.name = "update_transaction" /\ op.pre
    /\ Len(db) >= 2
    /\ ~RunningTotalInvariant(db)

\* C6: while nobody is logged in the page is "View Transactions" and no
\* step changes the store; this holds before the first successful login and
\* again after a logout
C6_WritesNeedLogin ==
    [][/\ ~logged_in => (page = "View Transactions" /\ db' = db /\ seq' = seq)
       /\ ~logged_in' => page' = "View Transactions"]_vars

\* a refused login after a logout, on a store that holds rows
C6_Witness ==
    /\ ~logged_in /\ username = "admin"
    /\ op.name = "login" /\ ~op.ok
    /\ db # <<>>

\* the running_total of the chronologically last of a set of rows, zero for
\* the empty set
LastTotal(rows) ==
    IF rows = {} THEN 0 ELSE OrderByDate(rows)[Cardinality(rows)].running_total

\* C7: the current_balance analyze_transactions returns is the
\* running_total of the chronologically last row of the set it is given
\* (zero for the empty set), for the rows of get_transactions and for the
\* rows of generate_report
C7_CurrentBalanceIsLastTotal ==
    [][/\ op'.name = "get_transactions" => op'.balance = LastTotal(Range(db))
       /\ op'.name = "generate_report"
            => \A start_date \in IsoDates, end_date \in IsoDates :
                Report(start_date, end_date)
                => op'.balance =
                     LastTotal({r \in Range(db) : /\ DateLeq(start_date, r.date)
                                                  /\ DateLeq(r.date, end_date)})]_vars
====
